---- MODULE Spec2Model ----
(***************************************************************************)
(* Model of the Intel OMF reader, OmfFile::parse (src/read/omf/mod.rs) and *)
(* the section / symbol accessors built on its result.                     *)
(*                                                                         *)
(* The input buffer is a sequence of bytes (0..255).  parse is one loop    *)
(* over the records of the buffer; one action of the model is one          *)
(* iteration of that loop: framing of the record at `pos`, then the match  *)
(* arm the record type selects.  Rust indexing is 0-based, TLA+ sequences  *)
(* are 1-based: B(s, i) is s[i] of the source.                             *)
(***************************************************************************)
EXTENDS Naturals, Sequences, FiniteSets, TLC

VARIABLES
    bytes,        \* the input buffer (never changes during a parse)
    pos,          \* `pos`: offset of the next record header
    status,       \* "running" | "ok" (Ok(Self)) | "err" (Err) | "panic"
    detail,       \* which Err / which panic ended the parse ("none" otherwise)
    module_name,  \* Option<&str>: <<>> is None, <<s>> is Some(s)
    lnames,       \* Vec<&str>
    segments,     \* Vec<OmfSegment>
    symbols,      \* Vec<OmfSymbol>
    groups,       \* Vec<OmfGroup>
    comdats,      \* Vec<OmfComdat>
    commons,      \* Vec<OmfCommon>
    comments,     \* Vec<OmfComment>
    calls,        \* how many times the caller has called parse on `bytes`
    first         \* what the caller got from its first call (None before)

acc  == <<module_name, lnames, segments, symbols, groups, comdats, commons, comments>>
vars == <<bytes, pos, status, detail, module_name, lnames, segments, symbols,
          groups, comdats, commons, comments, calls, first>>

(***************************************************************************)
(* Record type constants, as consts.rs sets them (decimal; hex in comment). *)
(***************************************************************************)
COMENT   == 136  \* 0x88
EXTDEF   == 140  \* 0x8C
LEXTDEF  == 160  \* 0xA0
LNAMES   == 150  \* 0x96
SEGDEF   == 152  \* 0x98
SEGDEF32 == 153  \* 0x99
GRPDEF   == 154  \* 0x9A
LGRPDEF  == 162  \* 0xA2
PUBDEF   == 144  \* 0x90
LPUBDEF  == 166  \* 0xA6
LEDATA   == 160  \* 0xA0
LLEDATA  == 168  \* 0xA8
FIXUPP   == 156  \* 0x9C
COMDEF   == 176  \* 0xB0
LCOMDEF  == 178  \* 0xB2
COMDAT   == 194  \* 0xC2
MODEND   == 138  \* 0x8A
MODEND32 == 139  \* 0x8B
LIDATA   == 162  \* 0xA2
LLIDATA  == 169  \* 0xA9
BAKPAT   == 164  \* 0xA4
NBKPAT   == 166  \* 0xA6
LIBHDR   == 240  \* 0xF0
LIBDIR   == 241  \* 0xF1
RIDATA   == 242  \* 0xF2
THEADR   == 128  \* 0x80

(***************************************************************************)
(* Byte and slice helpers.                                                 *)
(***************************************************************************)
B(s, i)      == s[i + 1]                        \* s[i]
Has(s, i)    == i < Len(s)                      \* i is a valid index of s
GetOr0(s, i) == IF Has(s, i) THEN B(s, i) ELSE 0   \* *s.get(i).unwrap_or(&0)
From(s, p)   == SubSeq(s, p + 1, Len(s))        \* &s[p..]   (p <= len)
Range(s, a, b) == SubSeq(s, a + 1, b)           \* &s[a..b]  (a <= b <= len)
U16(lo, hi)  == lo + 256 * hi                   \* u16::from_le_bytes
U32(b0, b1, b2, b3) == b0 + 256 * b1 + 65536 * b2 + 16777216 * b3
SatSub1(n)   == IF n = 0 THEN 0 ELSE n - 1      \* n.saturating_sub(1)
None         == <<>>
Some(x)      == <<x>>

\* v.get(i): Option of the element at 0-based index i
Get(v, i) == IF i < Len(v) THEN Some(v[i + 1]) ELSE None
\* opt.unwrap_or(d)
UnwrapOr(opt, d) == IF opt = None THEN d ELSE opt[1]

\* lnames.get(name_idx.saturating_sub(1)).copied().unwrap_or("")
LookupName(names, name_idx) == UnwrapOr(Get(names, SatSub1(name_idx)), <<>>)

\* read::parse_string: a length-prefixed name [len][bytes:len]; Err when the
\* slice is too short to hold it.
parse_string(s) ==
    IF Len(s) = 0 \/ Len(s) < 1 + s[1]
    THEN [st |-> "err", val |-> <<>>]
    ELSE [st |-> "ok", val |-> Range(s, 1, 1 + s[1])]

(***************************************************************************)
(* Framing of the record at `pos` (the head of the while loop).            *)
(***************************************************************************)
HasHeader == pos + 3 <= Len(bytes)                \* while pos + 3 <= bytes.len()
rec       == B(bytes, pos)                        \* bytes[pos]
len       == U16(B(bytes, pos + 1), B(bytes, pos + 2))
InBuffer  == pos + 3 + len <= Len(bytes)          \* the slice below is in range
body      == Range(bytes, pos + 3, pos + 3 + len) \* &bytes[pos+3 .. pos+3+len]

\* The match on `rec`: arms are tried in source order, the first that matches
\* is taken.  LSEGDEF is not a constant of consts.rs (nor imported), so the
\* arm `LSEGDEF => {}` is an identifier pattern: it matches every byte that no
\* earlier arm matched, and the arms after it (LGRPDEF, LIDRNAME, LIDRTYP,
\* LIDRVAL, `_ => Err`) are never reached.
Arm(r) ==
    IF r = THEADR THEN "THEADR"
    ELSE IF r = LNAMES THEN "LNAMES"
    ELSE IF r = SEGDEF \/ r = SEGDEF32 THEN "SEGDEF"
    ELSE IF r = PUBDEF THEN "PUBDEF"
    ELSE IF r = LPUBDEF THEN "LPUBDEF"
    ELSE IF r = EXTDEF \/ r = LEXTDEF THEN "EXTDEF"
    ELSE IF r = LEXTDEF THEN "LEXTDEF"
    ELSE IF r = FIXUPP THEN "FIXUPP"
    ELSE IF r = GRPDEF THEN "GRPDEF"
    ELSE IF r = COMDEF THEN "COMDEF"
    ELSE IF r = COMDAT THEN "COMDAT"
    ELSE IF r = MODEND THEN "MODEND"
    ELSE IF r = MODEND32 THEN "MODEND32"
    ELSE IF r = COMENT THEN "COMENT"
    ELSE IF r = BAKPAT THEN "BAKPAT"
    ELSE IF r = NBKPAT THEN "NBKPAT"
    ELSE IF r = LIBHDR THEN "LIBHDR"
    ELSE IF r = LIBDIR THEN "LIBDIR"
    ELSE IF r = RIDATA THEN "RIDATA"
    ELSE IF r = LIDATA \/ r = LLIDATA THEN "LIDATA"
    ELSE IF r = LEDATA \/ r = LLEDATA THEN "LEDATA"
    ELSE IF r = LCOMDEF THEN "LCOMDEF"
    ELSE "LSEGDEF"

\* A record is framed and its type selects arm `a`.
Framed(a) == status = "running" /\ HasHeader /\ InBuffer /\ Arm(rec) = a

\* Results of a handler body.
Ok(v)   == [st |-> "ok", val |-> v]
Panic   == [st |-> "panic", val |-> <<>>]
Err     == [st |-> "err", val |-> <<>>]

\* The end of a loop iteration whose handler did not fail: pos was advanced by
\* `pos += 3 + len` before the match.
Continue_NoHeader == /\ pos' = pos + len
                     /\ UNCHANGED <<bytes, status, detail, calls, first>>

Continue == /\ pos' = pos + 3 + len
            /\ UNCHANGED <<bytes, status, detail, calls, first>>

\* A handler failed: `?` returned the Err, or an index was out of bounds.
Abort(st, why) == /\ pos' = pos + 3 + len
                  /\ status' = st
                  /\ detail' = why
                  /\ UNCHANGED <<bytes, acc, calls, first>>

(***************************************************************************)
(* THEADR: module_name = Some(read::parse_string(body)?)                   *)
(***************************************************************************)
Theadr_RawBody ==
    /\ Framed("THEADR")
    /\ module_name' = Some(body)
    /\ UNCHANGED <<lnames, segments, symbols, groups, comdats, commons, comments>>
    /\ Continue

Theadr ==
    /\ Framed("THEADR")
    /\ LET r == parse_string(body) IN
       IF r.st = "ok"
       THEN /\ module_name' = Some(r.val)
            /\ UNCHANGED <<lnames, segments, symbols, groups, comdats, commons, comments>>
            /\ Continue
       ELSE Abort("err", "parse_string")

(***************************************************************************)
(* LNAMES: while p < body.len() { push(parse_string(&body[p..])?) }        *)
(***************************************************************************)
\* p += 1 + s.len(), for the name s read at p
LnamesAdvance(b, p) == p + 1 + Len(parse_string(From(b, p)).val)

RECURSIVE LnamesLoop(_, _, _)
LnamesLoop(b, p, out) ==
    IF ~(p < Len(b)) THEN Ok(out)
    ELSE LET r == parse_string(From(b, p)) IN
         IF r.st # "ok" THEN Err
         ELSE LnamesLoop(b, LnamesAdvance(b, p), Append(out, r.val))

Lnames_RenamesSegments ==
    /\ Framed("LNAMES")
    /\ LET r == LnamesLoop(body, 0, lnames) IN
       IF r.st = "ok"
       THEN /\ lnames' = r.val
            /\ segments' = [i \in 1..Len(segments) |->
                               IF segments[i].name = <<>> /\ Len(r.val) > 0
                               THEN [segments[i] EXCEPT !.name = r.val[1]]
                               ELSE segments[i]]
            /\ UNCHANGED <<module_name, symbols, groups, comdats, commons, comments>>
            /\ Continue
       ELSE Abort("err", "parse_string")

Lnames ==
    /\ Framed("LNAMES")
    /\ LET r == LnamesLoop(body, 0, lnames) IN
       IF r.st = "ok"
       THEN /\ lnames' = r.val
            /\ UNCHANGED <<module_name, segments, symbols, groups, comdats, commons, comments>>
            /\ Continue
       ELSE Abort("err", "parse_string")

(***************************************************************************)
(* SEGDEF | SEGDEF32                                                       *)
(***************************************************************************)
\* `data: &[]` of a freshly pushed segment
EmptyData == [kind |-> "Slice", offset |-> 0, bytes |-> <<>>]

SegdefBody(r, b, names) ==
    IF ~Has(b, 0) THEN Panic                        \* body[0]
    ELSE LET attr     == B(b, 0)
             is_code  == attr % 2 = 0               \* attr & 0x01 == 0
             is_32bit == r % 2 = 1                  \* rec & 1 == 1
             idx_at   == IF is_32bit THEN 5 ELSE 3  \* body[5] / body[3]
         IN IF ~Has(b, idx_at) THEN Panic
            ELSE Ok([name   |-> LookupName(names, B(b, idx_at)),
                     data   |-> EmptyData,
                     flags  |-> IF is_code THEN "EXECUTABLE" ELSE "NONE",
                     fixups |-> <<>>])

Segdef ==
    /\ Framed("SEGDEF")
    /\ LET r == SegdefBody(rec, body, lnames) IN
       IF r.st = "ok"
       THEN /\ segments' = Append(segments, r.val)
            /\ UNCHANGED <<module_name, lnames, symbols, groups, comdats, commons, comments>>
            /\ Continue
       ELSE Abort("panic", "index out of bounds")

(***************************************************************************)
(* PUBDEF, LPUBDEF, EXTDEF | LEXTDEF: symbols                              *)
(***************************************************************************)
Symbol(name, segment, offset) ==
    [name |-> name, segment |-> segment, offset |-> offset,
     global |-> TRUE, is_comdat |-> FALSE]

\* p += 1; p += 1; p += 2
PubdefAdvance(p) == p + 4

RECURSIVE PubdefLoop(_, _, _, _)
PubdefLoop(b, p, names, out) ==
    IF ~(p + 2 < Len(b)) THEN Ok(out)               \* while p + 2 < body.len()
    ELSE IF ~Has(b, p + 3) THEN Panic               \* body[p+1] of the offset
    ELSE PubdefLoop(b, PubdefAdvance(p), names,
                    Append(out, Symbol(LookupName(names, B(b, p)),
                                       Some(B(b, p + 1)),
                                       U16(B(b, p + 2), B(b, p + 3)))))

Pubdef ==
    /\ Framed("PUBDEF")
    /\ LET r == PubdefLoop(body, 0, lnames, symbols) IN
       IF r.st = "ok"
       THEN /\ symbols' = r.val
            /\ UNCHANGED <<module_name, lnames, segments, groups, comdats, commons, comments>>
            /\ Continue
       ELSE Abort("panic", "index out of bounds")

\* p += 1; p += 2; p += 4
LpubdefAdvance(p) == p + 7

RECURSIVE LpubdefLoop(_, _, _, _)
LpubdefLoop(b, p, names, out) ==
    IF ~(p + 4 < Len(b)) THEN Ok(out)               \* while p + 4 < body.len()
    ELSE IF ~Has(b, p + 6) THEN Panic
    ELSE LpubdefLoop(b, LpubdefAdvance(p), names,
                     Append(out, Symbol(LookupName(names, B(b, p)),
                                        \* seg_idx as u8
                                        Some(U16(B(b, p + 1), B(b, p + 2)) % 256),
                                        U32(B(b, p + 3), B(b, p + 4),
                                            B(b, p + 5), B(b, p + 6)))))

Lpubdef ==
    /\ Framed("LPUBDEF")
    /\ LET r == LpubdefLoop(body, 0, lnames, symbols) IN
       IF r.st = "ok"
       THEN /\ symbols' = r.val
            /\ UNCHANGED <<module_name, lnames, segments, groups, comdats, commons, comments>>
            /\ Continue
       ELSE Abort("panic", "index out of bounds")

\* p += 1
ExtdefAdvance(p) == p + 1

RECURSIVE ExtdefLoop(_, _, _, _)
ExtdefLoop(b, p, names, out) ==
    IF ~(p < Len(b)) THEN out                       \* while p < body.len()
    ELSE ExtdefLoop(b, ExtdefAdvance(p), names,
                    Append(out, Symbol(LookupName(names, B(b, p)), None, 0)))

Extdef ==
    /\ Framed("EXTDEF")
    /\ symbols' = ExtdefLoop(body, 0, lnames, symbols)
    /\ UNCHANGED <<module_name, lnames, segments, groups, comdats, commons, comments>>
    /\ Continue

(***************************************************************************)
(* FIXUPP                                                                  *)
(***************************************************************************)
Relocation(loc_off, tgt, loc_size) ==
    [offset |-> loc_off, target |-> <<"Segment", tgt>>, frame |-> Some("Location"),
     kind |-> "Absolute", encoding |-> "Generic", size |-> loc_size, addend |-> 0]

\* match (typ >> 5) & 0b11 { 0 => 8, 1 => 16, 2 => 32, _ => 16 }
LocSize(typ) ==
    LET f == (typ \div 32) % 4 IN
    IF f = 0 THEN 8 ELSE IF f = 1 THEN 16 ELSE IF f = 2 THEN 32 ELSE 16

\* The relocations one FIXUPP body yields, in order (pushed to the last
\* segment when there is one), or a panic on an out-of-bounds body index.
\* The cursor after the subrecord at p: p += 1 for the type byte, and for a
\* fixup p += 2; p += 1; if (typ & 0x04) != 0 { p += 1 }
FixuppAdvance(b, p) ==
    IF B(b, p) < 128 THEN p + 1
    ELSE p + 4 + (IF (B(b, p) \div 4) % 2 = 1 THEN 1 ELSE 0)

RECURSIVE FixuppLoop(_, _, _)
FixuppLoop(b, p, out) ==
    IF ~(p < Len(b)) THEN Ok(out)                   \* while p < body.len()
    ELSE LET typ == B(b, p) IN
         IF typ < 128 THEN FixuppLoop(b, FixuppAdvance(b, p), out)   \* thread
         ELSE IF ~Has(b, p + 2) THEN Panic          \* loc_off: body[p], body[p+1]
         ELSE IF ~Has(b, p + 3) THEN Panic          \* tgt = body[p]
         ELSE FixuppLoop(b,
                         FixuppAdvance(b, p),
                         Append(out, Relocation(U16(B(b, p + 1), B(b, p + 2)),
                                                B(b, p + 3), LocSize(typ))))

\* segments.last_mut(): the relocations go to the most recently pushed segment
AttachFixups(segs, relocs) ==
    IF Len(segs) = 0 THEN segs
    ELSE [segs EXCEPT ![Len(segs)].fixups = @ \o relocs]

Fixupp ==
    /\ Framed("FIXUPP")
    /\ LET r == FixuppLoop(body, 0, <<>>) IN
       IF r.st = "ok"
       THEN /\ segments' = AttachFixups(segments, r.val)
            /\ UNCHANGED <<module_name, lnames, symbols, groups, comdats, commons, comments>>
            /\ Continue
       ELSE Abort("panic", "index out of bounds")

(***************************************************************************)
(* GRPDEF                                                                  *)
(***************************************************************************)
\* i += 1 for the kind, i += 1 for the index
GrpdefAdvance(i) == i + 2

RECURSIVE GrpdefLoop(_, _, _)
GrpdefLoop(b, i, out) ==
    IF ~(i < Len(b)) THEN out                       \* while i < body.len()
    ELSE GrpdefLoop(b, GrpdefAdvance(i),
                    IF B(b, i) = 2                  \* kind == 0x02
                    THEN Append(out, GetOr0(b, i + 1))
                    ELSE out)

\* The groups after a GRPDEF body: nothing for an empty body; the group is
\* pushed only `if let Some(name) = lnames.get(group_name_index)`.
GrpdefBody(b, names, grps) ==
    IF Len(b) = 0 THEN grps
    ELSE LET name == Get(names, B(b, 0)) IN
         IF name = None THEN grps
         ELSE Append(grps, [name |-> name[1],
                            segment_indices |-> GrpdefLoop(b, 1, <<>>)])

Grpdef ==
    /\ Framed("GRPDEF")
    /\ groups' = GrpdefBody(body, lnames, groups)
    /\ UNCHANGED <<module_name, lnames, segments, symbols, comdats, commons, comments>>
    /\ Continue

(***************************************************************************)
(* COMDEF                                                                  *)
(***************************************************************************)
ComdefBody(r, b, names) ==
    LET is_32bit == r % 2 = 1                       \* (rec & 1) == 1
        w        == IF is_32bit THEN 4 ELSE 2
        rd(off)  == IF is_32bit
                    THEN U32(B(b, off), B(b, off + 1), B(b, off + 2), B(b, off + 3))
                    ELSE U16(B(b, off), B(b, off + 1))
    IN IF ~Has(b, 1 + 2 * w) THEN Panic             \* last byte read by read_u
       ELSE Ok([name       |-> LookupName(names, B(b, 0)),
                elem_size  |-> rd(2),
                elem_count |-> rd(2 + w),
                is_far     |-> (B(b, 1) \div 2) % 2 = 1,   \* typ & 0x02 != 0
                is_32bit   |-> is_32bit])

Comdef ==
    /\ Framed("COMDEF")
    /\ LET r == ComdefBody(rec, body, lnames) IN
       IF r.st = "ok"
       THEN /\ commons' = Append(commons, r.val)
            /\ UNCHANGED <<module_name, lnames, segments, symbols, groups, comdats, comments>>
            /\ Continue
       ELSE Abort("panic", "index out of bounds")

(***************************************************************************)
(* COMDAT                                                                  *)
(***************************************************************************)
\* The decoded header of a COMDAT body of at least 3 bytes.
ComdatHeader(r, b) ==
    LET is_32bit  == r % 2 = 1                      \* (rec & 1) == 1
        has_attr  == B(b, 1) >= 240                 \* attr_or_name >= 0xF0
        p0        == IF has_attr THEN 3 ELSE 2
        name_idx  == IF has_attr THEN B(b, 2) ELSE B(b, 1)
        offset    == IF is_32bit
                     THEN U32(GetOr0(b, p0 + 1), GetOr0(b, p0 + 2),
                              GetOr0(b, p0 + 3), GetOr0(b, p0 + 4))
                     ELSE U16(GetOr0(b, p0 + 1), GetOr0(b, p0 + 2))
    IN [selection     |-> B(b, 0),
        name_idx      |-> name_idx,
        segment_index |-> GetOr0(b, p0),            \* body.get(p).copied().unwrap_or(0)
        offset        |-> offset,
        p             |-> p0 + 1 + (IF is_32bit THEN 4 ELSE 2)]

\* The segments and comdats after a COMDAT body.
ComdatBody(r, b, names, segs, cds) ==
    IF Len(b) < 3 THEN [segments |-> segs, comdats |-> cds]   \* too short: continue
    ELSE
      LET h       == ComdatHeader(r, b)
          name    == LookupName(names, h.name_idx)
          seg     == Get(segs, SatSub1(h.segment_index))
          inline  == Len(b) > h.p + 2               \* looks_like_inline_data
          cdata   == [kind |-> "Comdat", offset |-> h.offset, bytes |-> From(b, h.p)]
          entry(segment_name, data) ==
              [name |-> name, selection |-> h.selection,
               segment_index |-> h.segment_index, offset |-> h.offset,
               segment_name |-> segment_name, data |-> data]
      IN IF seg # None
         THEN [segments |-> segs,
               comdats  |-> Append(cds, entry(Some(seg[1].name), Some(seg[1].data)))]
         ELSE IF inline
         THEN [segments |-> Append(segs, [name |-> name, data |-> cdata,
                                          flags |-> "NONE", fixups |-> <<>>]),
               comdats  |-> Append(cds, entry(Some(name), Some(cdata)))]
         ELSE [segments |-> segs, comdats |-> Append(cds, entry(None, None))]

Comdat ==
    /\ Framed("COMDAT")
    /\ LET r == ComdatBody(rec, body, lnames, segments, comdats) IN
       /\ segments' = r.segments
       /\ comdats' = r.comdats
    /\ UNCHANGED <<module_name, lnames, symbols, groups, commons, comments>>
    /\ Continue

(***************************************************************************)
(* MODEND / MODEND32 and the other arms with an empty body                 *)
(***************************************************************************)
Modend ==
    /\ status = "running" /\ HasHeader /\ InBuffer
    /\ Arm(rec) \in {"MODEND", "MODEND32"}
    /\ UNCHANGED acc
    /\ Continue

\* BAKPAT, LIBHDR, LIBDIR, RIDATA, LCOMDEF and the catch-all LSEGDEF arm
Skip ==
    /\ status = "running" /\ HasHeader /\ InBuffer
    /\ Arm(rec) \in {"BAKPAT", "LIBHDR", "LIBDIR", "RIDATA", "LCOMDEF", "LSEGDEF"}
    /\ UNCHANGED acc
    /\ Continue

(***************************************************************************)
(* COMENT: comment::parse_comment                                          *)
(***************************************************************************)
is_known_subtyped_class(subtype) == subtype \in {0, 1, 2, 3, 154, 155, 156}

parse_comment(b) ==
    IF Len(b) < 2 THEN None
    ELSE LET class   == B(b, 0)
             subtype == B(b, 1)
             kind    == IF class = 0 THEN <<"CompilerInfo">>
                        ELSE IF class = 1 THEN <<"Copyright">>
                        ELSE IF class = 154 /\ is_known_subtyped_class(subtype)
                             THEN <<"LinkerInfo">>
                        ELSE <<"Other", class>>
         IN Some([kind |-> kind, data |-> From(b, 2)])

Coment ==
    /\ Framed("COMENT")
    /\ comments' = comments \o parse_comment(body)   \* push only if Some(cmt)
    /\ UNCHANGED <<module_name, lnames, segments, symbols, groups, comdats, commons>>
    /\ Continue

(***************************************************************************)
(* LIDATA | LLIDATA and LEDATA | LLEDATA                                   *)
(***************************************************************************)
LidataBody(b, segs) ==
    IF Len(b) < 3 \/ Len(segs) = 0 THEN segs
    ELSE [segs EXCEPT ![Len(segs)].data =          \* segments.last_mut()
             [kind |-> "Lidata", offset |-> U16(B(b, 0), B(b, 1)), bytes |-> From(b, 2)]]

Lidata ==
    /\ Framed("LIDATA")
    /\ segments' = LidataBody(body, segments)
    /\ UNCHANGED <<module_name, lnames, symbols, groups, comdats, commons, comments>>
    /\ Continue

LedataBody(r, b, segs) ==
    LET is_32bit == r = LLIDATA                     \* rec == LLIDATA
        seg_idx  == SatSub1(GetOr0(b, 0))
        offset   == IF is_32bit
                    THEN U32(GetOr0(b, 1), GetOr0(b, 2), GetOr0(b, 3), GetOr0(b, 4))
                    ELSE U16(GetOr0(b, 1), GetOr0(b, 2))
        p        == 1 + (IF is_32bit THEN 4 ELSE 2)
    IN IF p > Len(b) THEN Panic                     \* &body[p..]
       ELSE IF seg_idx < Len(segs)                  \* segments.get_mut(seg_idx)
       THEN Ok([segs EXCEPT ![seg_idx + 1].data =
                   [kind |-> "Lidata", offset |-> offset, bytes |-> From(b, p)]])
       ELSE Ok(segs)

Ledata ==
    /\ Framed("LEDATA")
    /\ LET r == LedataBody(rec, body, segments) IN
       IF r.st = "ok"
       THEN /\ segments' = r.val
            /\ UNCHANGED <<module_name, lnames, symbols, groups, comdats, commons, comments>>
            /\ Continue
       ELSE Abort("panic", "range start index out of range")

(***************************************************************************)
(* The two ways out of the loop head                                       *)
(***************************************************************************)
\* &bytes[pos + 3 .. pos + 3 + len] with the end past the buffer: the slice
\* index panics before pos is advanced.
FrameFault ==
    /\ status = "running" /\ HasHeader /\ ~InBuffer
    /\ status' = "panic"
    /\ detail' = "range end index out of range"
    /\ UNCHANGED <<bytes, pos, acc, calls, first>>

\* Fewer than 3 bytes are left: the loop ends and parse returns Ok(Self).
Finish ==
    /\ status = "running" /\ ~HasHeader
    /\ status' = "ok"
    /\ UNCHANGED <<bytes, pos, detail, acc, calls, first>>

(***************************************************************************)
(* Accessors of the parse result (section.rs)                              *)
(***************************************************************************)
\* OmfSection::data: the bytes of Ledata and Comdat data; LIDATA is not
\* expanded and yields the empty slice.  A segment that no record filled
\* still holds the empty slice it was pushed with.
SectionData(d) == IF d.kind = "Lidata" THEN <<>> ELSE d.bytes
\* OmfSection::size
SectionSize(d) == IF d.kind = "Lidata" THEN 0 ELSE Len(d.bytes)

(***************************************************************************)
(* Inputs: byte buffers built from a catalogue of records.  A record on    *)
(* the wire is [type][len: u16 LE][len bytes], the last of them the        *)
(* checksum.                                                               *)
(***************************************************************************)
Rec(t, b) == <<t, Len(b) % 256, Len(b) \div 256>> \o b

R_THEADR      == Rec(128, <<1, 65, 0>>)                    \* THEADR "A"
R_THEADR_E    == Rec(128, <<0, 0>>)                        \* THEADR ""
R_LNAMES      == Rec(150, <<1, 84, 1, 67, 0>>)             \* LNAMES "T", "C"
R_LNAMES_D    == Rec(150, <<1, 68, 0>>)                    \* LNAMES "D"
R_LNAMES_CK   == Rec(150, <<1, 84, 7>>)                    \* LNAMES "T", checksum 7
R_SEGDEF      == Rec(152, <<72, 3, 0, 1, 2, 0, 0>>)        \* SEGDEF name 1, class 2
R_SEGDEF_0    == Rec(152, <<72, 0, 0, 0, 0, 0, 0>>)        \* SEGDEF name 0, length 0
R_SEGDEF_9    == Rec(152, <<73, 3, 0, 9, 0, 0, 0>>)        \* SEGDEF name 9
R_SEGDEF32    == Rec(153, <<72, 3, 0, 0, 0, 2, 2, 0, 0>>)  \* SEGDEF32 name 2
R_SEGDEF_S    == Rec(152, <<72, 0>>)                       \* SEGDEF, short body
R_PUBDEF      == Rec(144, <<0, 1, 1, 77, 0, 0, 0, 0>>)     \* PUBDEF grp 0 seg 1 "M" @0
R_PUBDEF_S    == Rec(144, <<0, 1, 0>>)                     \* PUBDEF, no entries
R_LPUBDEF     == Rec(166, <<1, 1, 0, 4, 0, 0, 0, 0>>)      \* 0xA6
R_EXTDEF      == Rec(140, <<1, 80, 0, 0>>)                 \* EXTDEF "P" type 0
R_LEDATA      == Rec(160, <<1, 0, 0, 144, 195, 0>>)        \* LEDATA seg 1 @0: 90 C3
R_LLEDATA     == Rec(168, <<1, 0, 0, 144, 0>>)             \* 0xA8 seg 1 @0: 90
R_LLEDATA_B   == Rec(168, <<1, 1, 0, 195, 0>>)             \* 0xA8 seg 1 @1: C3
R_LLEDATA_2   == Rec(168, <<2, 0, 0, 204, 0>>)             \* 0xA8 seg 2 @0: CC
R_LLEDATA_0   == Rec(168, <<0, 0, 0, 238, 0>>)             \* 0xA8 seg 0 @0: EE
R_LLEDATA_S   == Rec(168, <<1, 0>>)                        \* 0xA8, short body
R_LIDATA      == Rec(162, <<1, 0, 0, 1, 0, 0, 0, 1, 144, 0>>)  \* LIDATA seg 1 @0
R_FIXUPP      == Rec(156, <<196, 1, 86, 1, 0>>)            \* one fixup subrecord
R_FIXUPP_T    == Rec(156, <<0, 1, 0>>)                     \* one thread subrecord
R_FIXUPP_S    == Rec(156, <<196, 1, 0>>)                   \* fixup cut short
R_FIXUPP_TU   == Rec(156, <<9, 3, 196, 1, 13, 1, 0>>)      \* thread, then a fixup using it
R_FIXUPP_U    == Rec(156, <<196, 1, 12, 1, 0>>)            \* fixup using target thread 0
R_FIXUPP_TI   == Rec(156, <<0, 129, 5, 0>>)                \* thread with a two-byte index
\* two threads (target slot 0, frame slot 0), then two fixups that use them
R_FIXUPP_TT   == Rec(156, <<0, 1, 64, 1, 196, 1, 140, 196, 1, 140, 0>>)
R_SEGDEF_W    == Rec(152, <<72, 0, 0, 128, 1, 0, 0, 0>>)   \* SEGDEF name 1 as two-byte index
R_LLEDATA_W   == Rec(168, <<128, 1, 0, 0, 144, 0>>)        \* 0xA8 seg 1 as two-byte index
R_GRPDEF      == Rec(154, <<1, 255, 1, 0>>)                \* GRPDEF name 1, (FF, 1)
R_GRPDEF_2    == Rec(154, <<1, 2, 1, 0>>)                  \* GRPDEF name 1, (02, 1)
R_GRPDEF_9    == Rec(154, <<9, 255, 1, 0>>)                \* GRPDEF name 9
R_COMDEF      == Rec(176, <<1, 0, 2, 0, 1, 0, 0>>)         \* COMDEF name 1
R_COMDEF_S    == Rec(176, <<1, 0>>)                        \* COMDEF, short body
R_COMDEF_V    == Rec(176, <<1, 86, 0, 98, 2, 4, 0>>)       \* COMDEF "V" far 2 x 4
R_COMDAT      == Rec(194, <<0, 1, 1, 0, 0, 85, 195, 0>>)   \* COMDAT name 1 seg 1
R_COMDAT_I    == Rec(194, <<0, 1, 5, 0, 0, 85, 195, 93, 0>>)  \* COMDAT name 1 seg 5
R_COMDAT_S    == Rec(194, <<0, 0>>)                        \* COMDAT, short body
R_COMDAT_I1   == Rec(194, <<0, 1, 5, 0, 0, 85, 0>>)        \* COMDAT seg 5, one inline byte
R_COMDAT_C    == Rec(194, <<1, 1, 1, 0, 0, 93, 0>>)        \* COMDAT continuation
R_MODEND      == Rec(138, <<0, 0>>)                        \* MODEND
R_MODEND32    == Rec(139, <<0, 0>>)                        \* MODEND32
R_MODEND_E    == Rec(138, <<192, 0, 1, 1, 16, 0, 0>>)      \* MODEND, start seg 1 : 0010
R_COMENT      == Rec(136, <<128, 159, 76, 0>>)             \* COMENT class 9F
R_COMENT_S    == Rec(136, <<0>>)                           \* COMENT, checksum only
R_BAKPAT      == Rec(164, <<0>>)                           \* 0xA4
R_LIBHDR      == Rec(240, <<0>>)                           \* 0xF0
R_UNKNOWN     == Rec(66, <<0>>)                            \* 0x42: no OMF record
R_PUBDEF32    == Rec(145, <<0, 1, 1, 77, 0, 0, 0, 0, 0, 0>>)  \* 0x91
T_TRUNC       == <<128, 255, 255>>                         \* declared length 65535
T_SHORT       == <<150, 5, 0, 1, 84>>                      \* declared 5, 2 present
T_TAIL        == <<138>>                                   \* one byte, no header

AnyRecords ==
    {R_THEADR, R_THEADR_E, R_LNAMES, R_LNAMES_D, R_LNAMES_CK, R_SEGDEF, R_SEGDEF_0,
     R_SEGDEF_9, R_SEGDEF32, R_SEGDEF_S, R_PUBDEF, R_PUBDEF_S, R_LPUBDEF, R_EXTDEF,
     R_LEDATA, R_LLEDATA, R_LLEDATA_B, R_LLEDATA_2, R_LLEDATA_0, R_LLEDATA_S, R_LIDATA,
     R_FIXUPP, R_FIXUPP_T, R_FIXUPP_S, R_GRPDEF, R_GRPDEF_2, R_GRPDEF_9, R_COMDEF,
     R_COMDEF_S, R_COMDAT, R_COMDAT_I, R_COMDAT_S, R_MODEND, R_MODEND32, R_COMENT,
     R_COMENT_S, R_BAKPAT, R_LIBHDR, R_UNKNOWN, R_PUBDEF32, T_TRUNC, T_SHORT,
     R_FIXUPP_TU, R_FIXUPP_U, R_COMDEF_V, R_COMDAT_I1, R_COMDAT_C, T_TAIL,
     R_MODEND_E, R_FIXUPP_TI, R_SEGDEF_W, R_LLEDATA_W, R_FIXUPP_TT}

CoreRecords ==
    {R_LNAMES, R_SEGDEF, R_LEDATA, R_LLEDATA, R_LLEDATA_B, R_LIDATA, R_FIXUPP, R_MODEND}

\* Streams of any catalogue record are explored up to MaxAnyRecords records,
\* streams of the core records up to MaxCoreRecords.
MaxAnyRecords  == 2
MaxCoreRecords == 4

SeqsUpTo(S, n) == UNION {[1..k -> S] : k \in 0..n}

RECURSIVE Flatten(_)
Flatten(ss) == IF Len(ss) = 0 THEN <<>> ELSE Head(ss) \o Flatten(Tail(ss))

Inputs == {Flatten(ss) : ss \in SeqsUpTo(AnyRecords, MaxAnyRecords)
                                \cup SeqsUpTo(CoreRecords, MaxCoreRecords)}

Init ==
    /\ bytes \in Inputs
    /\ pos = 0
    /\ status = "running"
    /\ detail = "none"
    /\ module_name = None
    /\ lnames = <<>>
    /\ segments = <<>>
    /\ symbols = <<>>
    /\ groups = <<>>
    /\ comdats = <<>>
    /\ commons = <<>>
    /\ comments = <<>>
    /\ calls = 1
    /\ first = None

Next ==
    \/ Theadr
    \/ Lnames
    \/ Segdef
    \/ Pubdef
    \/ Lpubdef
    \/ Extdef
    \/ Fixupp
    \/ Grpdef
    \/ Comdef
    \/ Comdat
    \/ Modend
    \/ Skip
    \/ Coment
    \/ Lidata
    \/ Ledata
    \/ FrameFault
    \/ Finish

Spec == Init /\ [][Next]_vars

(***************************************************************************)
(* Reference notions of the wire format, used to state the properties.     *)
(***************************************************************************)
\* The loop is about to frame a record of type t.
Handling(t) == status = "running" /\ HasHeader /\ InBuffer /\ rec = t

\* The records the loop has consumed so far: those that start before `pos`.
RECURSIVE FramesFrom(_, _, _)
FramesFrom(bs, q, upto) ==
    IF q >= upto \/ q + 3 > Len(bs) THEN <<>>
    ELSE LET l == U16(B(bs, q + 1), B(bs, q + 2)) IN
         IF q + 3 + l > Len(bs) THEN <<>>
         ELSE <<[type |-> B(bs, q), body |-> Range(bs, q + 3, q + 3 + l)]>>
              \o FramesFrom(bs, q + 3 + l, upto)

Processed == FramesFrom(bytes, 0, pos)

\* The content of a record body: the body without its trailing checksum byte.
Content(b) == IF Len(b) = 0 THEN <<>> ELSE Range(b, 0, Len(b) - 1)

\* The parse has not failed.
Alive == status \in {"running", "ok"}

\* The opcode map of the format: record type -> the handler assigned to it.
CanonicalHandler ==
    (128 :> "THEADR") @@ (136 :> "COMENT") @@ (138 :> "MODEND") @@ (139 :> "MODEND")
    @@ (140 :> "EXTDEF") @@ (144 :> "PUBDEF") @@ (145 :> "PUBDEF")
    @@ (150 :> "LNAMES") @@ (152 :> "SEGDEF") @@ (153 :> "SEGDEF")
    @@ (154 :> "GRPDEF") @@ (156 :> "FIXUPP") @@ (160 :> "LEDATA") @@ (161 :> "LEDATA")
    @@ (162 :> "LIDATA") @@ (163 :> "LIDATA") @@ (176 :> "COMDEF") @@ (177 :> "COMDEF")
    @@ (180 :> "LEXTDEF") @@ (182 :> "LPUBDEF") @@ (183 :> "LPUBDEF")
    @@ (194 :> "COMDAT") @@ (195 :> "COMDAT")

\* Every record type the format or consts.rs knows.
KnownOpcodes ==
    DOMAIN CanonicalHandler
    \cup {164, 166, 168, 169, 178, 240, 241, 242, 252, 253, 254, 148}

\* The handler an arm of the match runs.
ArmHandler(a) ==
    IF a \in {"MODEND", "MODEND32"} THEN "MODEND"
    ELSE IF a \in {"BAKPAT", "NBKPAT", "LIBHDR", "LIBDIR", "RIDATA", "LCOMDEF", "LSEGDEF"}
         THEN "ignored"
    ELSE a

Last(v) == v[Len(v)]

(***************************************************************************)
(* C1. A record whose declared length extends past the end of the buffer   *)
(* makes parse fail with a Truncated error (and return no module), at any  *)
(* position in the stream.                                                 *)
(***************************************************************************)
C1_TruncatedIsError ==
    [][(status = "running" /\ HasHeader /\ ~InBuffer)
         => (status' = "err" /\ detail' = "Truncated")]_vars

(***************************************************************************)
(* C2. A record whose type byte is no OMF opcode makes parse return an     *)
(* UnknownRecord error and no module, whatever was processed before.       *)
(***************************************************************************)
C2_UnknownIsError ==
    [][(status = "running" /\ HasHeader /\ InBuffer /\ rec \notin KnownOpcodes)
         => (status' = "err" /\ detail' = "UnknownRecord")]_vars

(***************************************************************************)
(* C3. The dispatcher agrees with the opcode map: every opcode of the map  *)
(* is handled by the handler the map assigns it; a 0xA0 record is handled  *)
(* as LEDATA and appends no symbol.                                        *)
(***************************************************************************)
C3_DispatchAgrees ==
    [][(status = "running" /\ HasHeader /\ InBuffer /\ rec \in DOMAIN CanonicalHandler)
         => /\ ArmHandler(Arm(rec)) = CanonicalHandler[rec]
            /\ (CanonicalHandler[rec] = "LEDATA" => symbols' = symbols)]_vars

(***************************************************************************)
(* C4. Parsing terminates at the first MODEND / MODEND32: once one has     *)
(* been processed, the bytes after it add to no table and cause no error.  *)
(***************************************************************************)
ModendSeen == \E i \in 1..Len(Processed) : Processed[i].type \in {138, 139}

C4_ModendTerminates ==
    [][ModendSeen => (UNCHANGED acc /\ status' \in {"running", "ok"})]_vars

(***************************************************************************)
(* C5. A name index of 0 denotes "none": a SEGDEF or COMDEF whose name     *)
(* index is 0 gets the empty name even when the name table is non-empty,   *)
(* and a name index i >= 1 resolves to the i-th name appended so far.      *)
(***************************************************************************)
IndexedName(n) == IF n = 0 THEN <<>> ELSE lnames[n]

C5_IndexZeroIsNone ==
    [][/\ (Handling(152) /\ Len(body) >= 4 /\ B(body, 3) <= Len(lnames))
            => /\ Len(segments') = Len(segments) + 1
               /\ Last(segments').name = IndexedName(B(body, 3))
       /\ (Handling(176) /\ Len(body) >= 6 /\ B(body, 0) <= Len(lnames))
            => /\ Len(commons') = Len(commons) + 1
               /\ Last(commons').name = IndexedName(B(body, 0))]_vars

(***************************************************************************)
(* C6. A name index greater than the size of the name table is not fatal:  *)
(* it resolves to the empty string, the record still appends its entity    *)
(* (segment, group, common block), and parsing continues.                  *)
(***************************************************************************)
C6_UnknownNameNotFatal ==
    [][/\ (Handling(152) /\ Len(body) >= 4 /\ B(body, 3) > Len(lnames))
            => /\ status' = "running"
               /\ Len(segments') = Len(segments) + 1
               /\ Last(segments').name = <<>>
       /\ (Handling(176) /\ Len(body) >= 6 /\ B(body, 0) > Len(lnames))
            => /\ status' = "running"
               /\ Len(commons') = Len(commons) + 1
               /\ Last(commons').name = <<>>
       /\ (Handling(154) /\ Len(body) >= 2 /\ B(body, 0) > Len(lnames))
            => /\ status' = "running"
               /\ Len(groups') = Len(groups) + 1
               /\ Last(groups').name = <<>>]_vars

(***************************************************************************)
(* C7. The name table is the concatenation, in stream order, of the names  *)
(* carried by all LNAMES records processed so far.                         *)
(***************************************************************************)
\* The length-prefixed strings of the content of one LNAMES record.
RECURSIVE NamesOf(_)
NamesOf(c) ==
    IF Len(c) = 0 \/ Len(c) < 1 + c[1] THEN <<>>
    ELSE <<Range(c, 1, 1 + c[1])>> \o NamesOf(From(c, 1 + c[1]))

RECURSIVE CarriedNames(_)
CarriedNames(frames) ==
    IF Len(frames) = 0 THEN <<>>
    ELSE (IF Head(frames).type = 150 THEN NamesOf(Content(Head(frames).body)) ELSE <<>>)
         \o CarriedNames(Tail(frames))

C7_NameTableIsConcatenation ==
    Alive => lnames = CarriedNames(Processed)

(***************************************************************************)
(* C8. After SEGDEF declared segment k, an LEDATA record that names        *)
(* segment k with bytes B makes the section of segment k return B from     *)
(* data() and |B| from size().                                             *)
(***************************************************************************)
\* LEDATA content: [segment index][offset: u16][bytes]
LedataBytes(b) == From(Content(b), 3)

C8_LedataFillsSection ==
    [][\A t \in {160, 168} :
         (Handling(t) /\ Len(body) >= 4 /\ B(body, 0) \in 1..Len(segments))
           => /\ status' = "running"
              /\ SectionData(segments'[B(body, 0)].data) = LedataBytes(body)
              /\ SectionSize(segments'[B(body, 0)].data) = Len(LedataBytes(body))]_vars

(***************************************************************************)
(* C9. When several LEDATA records target the same segment, the segment    *)
(* retains the chunk of every one of them in stream order: a later LEDATA  *)
(* never discards or replaces the bytes bound by an earlier one.           *)
(***************************************************************************)
\* The (offset, bytes) chunks a segment holds.
Chunks(seg) == IF seg.data.kind = "Slice" THEN {}
               ELSE {<<seg.data.offset, seg.data.bytes>>}

IsPrefix(u, v) == Len(u) <= Len(v) /\ SubSeq(v, 1, Len(u)) = u

\* An LEDATA record (as framed, f) that names segment k.
LedataFor(f, k) == f.type \in {160, 168} /\ Len(f.body) >= 4 /\ B(f.body, 0) = k

\* The segment holds the chunk of the LEDATA record f: a chunk at f's data
\* offset that begins with f's bytes.
HoldsChunk(seg, f) ==
    \E c \in Chunks(seg) : /\ c[1] = U16(B(f.body, 1), B(f.body, 2))
                           /\ IsPrefix(LedataBytes(f.body), c[2])

C9_LedataChunksRetained ==
    [][\A t \in {160, 168}, k \in 1..Len(segments) :
         (Handling(t) /\ status' = "running" /\ Len(body) >= 4 /\ B(body, 0) = k)
           => \A i \in 1..Len(Processed) :
                LedataFor(Processed[i], k) => HoldsChunk(segments'[k], Processed[i])]_vars

(***************************************************************************)
(* C10. Each fixup subrecord of a FIXUPP record produces one relocation,   *)
(* attached to the segment whose data was bound by the most recent         *)
(* preceding LEDATA / LIDATA record, also when that segment is not the     *)
(* most recently declared one.                                             *)
(***************************************************************************)
DataOpcodes == {160, 161, 162, 163, 168, 169}

\* The segment index named by the most recent data record (0: none yet).
RECURSIVE BoundSegment(_)
BoundSegment(frames) ==
    IF Len(frames) = 0 THEN 0
    ELSE LET f == Last(frames) IN
         IF f.type \in DataOpcodes /\ Len(f.body) >= 1 THEN B(f.body, 0)
         ELSE BoundSegment(SubSeq(frames, 1, Len(frames) - 1))

C10_FixupGoesToBoundSegment ==
    [][(Handling(156) /\ status' = "running" /\ Len(body) >= 1 /\ B(body, 0) >= 128
        /\ BoundSegment(Processed) \in 1..Len(segments))
         => \A k \in 1..Len(segments) :
              IF k = BoundSegment(Processed)
              THEN Len(segments'[k].fixups) > Len(segments[k].fixups)
                   /\ IsPrefix(segments[k].fixups, segments'[k].fixups)
              ELSE segments'[k].fixups = segments[k].fixups]_vars

(***************************************************************************)
(* FIXUPP as the format defines it: thread subrecords fill 4 frame and 4   *)
(* target slots, fixup subrecords take frame and target inline or from a   *)
(* slot.  Only one-byte indices and the index-carrying methods (segment,   *)
(* group, symbol) are decoded; anything else makes the walk not ok.        *)
(***************************************************************************)
MethodName(m) == IF m = 0 THEN "Segment" ELSE IF m = 1 THEN "Group" ELSE "Symbol"

NoThreads == [frame |-> [s \in 0..3 |-> None], target |-> [s \in 0..3 |-> None]]

RECURSIVE FixuppWalk(_, _, _, _)
FixuppWalk(c, p, th, out) ==
    LET bad == [threads |-> th, fixups |-> out, ok |-> FALSE] IN
    IF p >= Len(c) THEN [threads |-> th, fixups |-> out, ok |-> TRUE]
    ELSE LET t == B(c, p) IN
      IF t < 128
      THEN \* thread subrecord: D, method, slot, then the index
           LET d == (t \div 64) % 2
               m == (t \div 4) % 8
               s == t % 4
           IN IF m > 2 \/ ~Has(c, p + 1) \/ B(c, p + 1) >= 128 THEN bad
              ELSE LET v == Some(<<MethodName(m), B(c, p + 1)>>) IN
                   FixuppWalk(c, p + 2,
                              IF d = 1 THEN [th EXCEPT !.frame[s] = v]
                                       ELSE [th EXCEPT !.target[s] = v],
                              out)
      ELSE \* fixup subrecord: two header bytes, fix-data, then what it announces
           IF ~Has(c, p + 2) THEN bad
           ELSE LET fd  == B(c, p + 2)
                    F   == fd \div 128
                    fm  == (fd \div 16) % 8
                    T   == (fd \div 8) % 2
                    P   == (fd \div 4) % 2
                    tg  == fd % 4
                    q1  == p + 3
                    q2  == IF F = 0 THEN q1 + 1 ELSE q1
                    q3  == IF T = 0 THEN q2 + 1 ELSE q2
                    q4  == IF P = 0 THEN q3 + 2 ELSE q3
                    frame  == IF F = 1 THEN th.frame[fm % 4]
                              ELSE Some(<<MethodName(fm), GetOr0(c, q1)>>)
                    target == IF T = 1 THEN th.target[tg]
                              ELSE Some(<<MethodName(tg), GetOr0(c, q2)>>)
                IN IF q4 > Len(c) \/ (F = 0 /\ (fm > 2 \/ GetOr0(c, q1) >= 128))
                      \/ (T = 0 /\ GetOr0(c, q2) >= 128)
                      \/ frame = None \/ target = None
                   THEN bad
                   ELSE FixuppWalk(c, q4, th,
                                   Append(out, [frame |-> frame[1], target |-> target[1],
                                                frame_thread |-> F = 1,
                                                target_thread |-> T = 1]))

\* The thread slots after the first k of the given records.
RECURSIVE ThreadsAfter(_, _)
ThreadsAfter(frames, k) ==
    IF k = 0 THEN [threads |-> NoThreads, ok |-> TRUE]
    ELSE LET prev == ThreadsAfter(frames, k - 1)
             f    == frames[k]
         IN IF ~prev.ok \/ f.type # 156 THEN prev
            ELSE LET w == FixuppWalk(Content(f.body), 0, prev.threads, <<>>)
                 IN [threads |-> w.threads, ok |-> w.ok]

\* The relocations a step adds, over all segments that exist before it.
Emitted ==
    Flatten([k \in 1..Len(segments) |->
                SubSeq(segments'[k].fixups, Len(segments[k].fixups) + 1,
                       Len(segments'[k].fixups))])

(***************************************************************************)
(* C11. FIXUPP thread slots persist across records: a thread subrecord     *)
(* writes its (method, index) into one of the 4 frame / 4 target slots and *)
(* emits no relocation; a fixup subrecord with F=1 (T=1) takes its frame   *)
(* (target) from the value last written to the slot it selects, also when  *)
(* an earlier FIXUPP record wrote it.  So a FIXUPP record emits one        *)
(* relocation per fixup subrecord, and a threaded frame or target is the   *)
(* slot's value.                                                           *)
(***************************************************************************)
C11_ThreadSlotsPersist ==
    [][(Handling(156) /\ Len(segments) > 0 /\ ThreadsAfter(Processed, Len(Processed)).ok
        /\ FixuppWalk(Content(body), 0,
                      ThreadsAfter(Processed, Len(Processed)).threads, <<>>).ok)
         => LET w == FixuppWalk(Content(body), 0,
                                ThreadsAfter(Processed, Len(Processed)).threads, <<>>)
            IN /\ status' = "running"
               /\ Len(Emitted) = Len(w.fixups)
               /\ \A i \in 1..Len(w.fixups) :
                    /\ w.fixups[i].target_thread => Emitted[i].target = w.fixups[i].target
                    /\ w.fixups[i].frame_thread
                         => Emitted[i].frame = Some(w.fixups[i].frame)]_vars

(***************************************************************************)
(* PUBDEF and EXTDEF as the format defines them (one-byte indices).        *)
(***************************************************************************)
\* Entries [name: len-prefixed][extra bytes of fields] from p to the end of c;
\* ok when the last entry ends exactly at the end.
RECURSIVE NamedEntries(_, _, _, _)
NamedEntries(c, p, extra, out) ==
    IF p = Len(c) THEN [ok |-> TRUE, entries |-> out]
    ELSE IF p + 1 + B(c, p) + extra > Len(c) THEN [ok |-> FALSE, entries |-> out]
    ELSE LET n == B(c, p) IN
         NamedEntries(c, p + 1 + n + extra, extra,
                      Append(out, [name  |-> Range(c, p + 1, p + 1 + n),
                                   field |-> Range(c, p + 1 + n, p + 1 + n + extra)]))

\* [group index][segment index][base frame: u16 if segment index = 0], then
\* entries [name][offset: u16][type index]
PubdefEntries(c) ==
    IF Len(c) < 2 \/ (B(c, 1) = 0 /\ Len(c) < 4)
    THEN [ok |-> FALSE, seg |-> 0, entries |-> <<>>]
    ELSE LET r == NamedEntries(c, IF B(c, 1) = 0 THEN 4 ELSE 2, 3, <<>>)
         IN [ok |-> r.ok, seg |-> B(c, 1), entries |-> r.entries]

(***************************************************************************)
(* C12. A PUBDEF record with header (group index, segment index s) and n   *)
(* entries [name][offset][type index] appends exactly n public symbols in  *)
(* entry order, each named by its inline name, with its offset as address  *)
(* and bound to segment s.                                                 *)
(***************************************************************************)
C12_PubdefAppendsEntries ==
    [][(Handling(144) /\ PubdefEntries(Content(body)).ok)
         => LET e == PubdefEntries(Content(body)) IN
            /\ status' = "running"
            /\ Len(symbols') = Len(symbols) + Len(e.entries)
            /\ IsPrefix(symbols, symbols')
            /\ \A i \in 1..Len(e.entries) :
                 LET s == symbols'[Len(symbols) + i] IN
                 /\ s.name = e.entries[i].name
                 /\ s.offset = U16(e.entries[i].field[1], e.entries[i].field[2])
                 /\ s.segment = Some(e.seg)]_vars

(***************************************************************************)
(* C13. An EXTDEF or LEXTDEF record with n entries [name][type index]      *)
(* appends exactly n symbols in entry order, each named by its inline      *)
(* name and undefined (bound to no segment).                               *)
(***************************************************************************)
C13_ExtdefAppendsEntries ==
    [][((Handling(140) \/ Handling(180)) /\ NamedEntries(Content(body), 0, 1, <<>>).ok)
         => LET e == NamedEntries(Content(body), 0, 1, <<>>).entries IN
            /\ status' = "running"
            /\ Len(symbols') = Len(symbols) + Len(e)
            /\ IsPrefix(symbols, symbols')
            /\ \A i \in 1..Len(e) :
                 LET s == symbols'[Len(symbols) + i] IN
                 s.name = e[i].name /\ s.segment = None]_vars

(***************************************************************************)
(* The symbol table of the parsed module (ObjectSymbolTable for OmfFile)   *)
(***************************************************************************)
\* self.symbols.get(index.0).cloned().ok_or(Error("invalid OMF symbol index"))
symbol_by_index(index) ==
    LET s == Get(symbols, index) IN
    IF s = None THEN Err ELSE Ok(s[1])

\* COMDEF as the format defines it: entries [name][type index][datatype]
\* [length] (0x61, near) or [count][size] (0x62, far); lengths up to 128 are
\* one literal byte.  The names of the entries, or not ok.
RECURSIVE ComdefEntries(_, _, _)
ComdefEntries(c, p, out) ==
    IF p = Len(c) THEN [ok |-> TRUE, names |-> out]
    ELSE LET n  == B(c, p)
             dt == GetOr0(c, p + n + 2)
             k  == IF dt = 97 THEN 1 ELSE 2
             q  == p + n + 3 + k
         IN IF dt \notin {97, 98} \/ q > Len(c)
               \/ \E j \in (p + n + 3)..(q - 1) : B(c, j) > 128
            THEN [ok |-> FALSE, names |-> out]
            ELSE ComdefEntries(c, q, Append(out, Range(c, p + 1, p + 1 + n)))

(***************************************************************************)
(* C14. The symbol table is the stream-order concatenation of the symbols  *)
(* of all PUBDEF / LPUBDEF / EXTDEF / LEXTDEF / COMDEF records, with no    *)
(* deduplication: every step only appends to it, a COMDEF record appends   *)
(* one symbol per common it declares, symbol_by_index(i) is the i-th       *)
(* appended symbol and an error when i is not below the number of symbols. *)
(***************************************************************************)
C14_SymbolTableIsConcatenation ==
    [][/\ IsPrefix(symbols, symbols')
       /\ \A i \in 0..Len(symbols) :
            IF i < Len(symbols) THEN symbol_by_index(i) = Ok(symbols[i + 1])
            ELSE symbol_by_index(i).st = "err"
       /\ (Handling(176) /\ ComdefEntries(Content(body), 0, <<>>).ok)
            => LET names == ComdefEntries(Content(body), 0, <<>>).names IN
               /\ status' = "running"
               /\ Len(symbols') = Len(symbols) + Len(names)
               /\ \A i \in 1..Len(names) :
                    symbols'[Len(symbols) + i].name = names[i]]_vars

(***************************************************************************)
(* C15. Each GRPDEF record appends exactly one group: its name is the      *)
(* name-table entry at the record's 1-based group-name index, its segment  *)
(* list the segment indices of the 0xFF-tagged entries in record order;    *)
(* entries with another tag contribute no segment.                         *)
(***************************************************************************)
\* The indices of the (0xFF, index) pairs of a GRPDEF content, from byte i on.
RECURSIVE TaggedSegments(_, _)
TaggedSegments(c, i) ==
    IF i + 1 >= Len(c) THEN <<>>
    ELSE (IF B(c, i) = 255 THEN <<B(c, i + 1)>> ELSE <<>>) \o TaggedSegments(c, i + 2)

C15_GrpdefAppendsGroup ==
    [][(Handling(154) /\ Len(body) >= 2 /\ Len(body) % 2 = 0
        /\ B(body, 0) \in 1..Len(lnames))
         => /\ status' = "running"
            /\ Len(groups') = Len(groups) + 1
            /\ IsPrefix(groups, groups')
            /\ Last(groups').name = lnames[B(body, 0)]
            /\ Last(groups').segment_indices = TaggedSegments(Content(body), 1)]_vars

(***************************************************************************)
(* COMDAT records of the stream.  The continuation flag is bit 0 of the    *)
(* first body byte; a body of fewer than 3 bytes holds no COMDAT.          *)
(***************************************************************************)
IsComdat(f)      == f.type = 194 /\ Len(f.body) >= 3
IsContinuation(f) == IsComdat(f) /\ B(f.body, 0) % 2 = 1

\* The COMDAT records that open a fragment, in stream order.
RECURSIVE Openers(_)
Openers(frames) ==
    IF Len(frames) = 0 THEN <<>>
    ELSE (IF IsComdat(Head(frames)) /\ ~IsContinuation(Head(frames))
          THEN <<Head(frames)>> ELSE <<>>) \o Openers(Tail(frames))

\* Every continuation record has a COMDAT record before it.
ContinuationsFollow(frames) ==
    \A i \in 1..Len(frames) :
        IsContinuation(frames[i]) => \E j \in 1..(i - 1) : IsComdat(frames[j])

(***************************************************************************)
(* C16. Every COMDAT fragment is retained and no selection is applied:     *)
(* after any record sequence the COMDAT list holds one entry per           *)
(* non-continuation COMDAT record, in stream order, repeated names and     *)
(* any selection value included.                                           *)
(***************************************************************************)
C16_ComdatsAllRetained ==
    (Alive /\ ContinuationsFollow(Processed))
      => /\ Len(comdats) = Len(Openers(Processed))
         /\ \A i \in 1..Len(comdats) :
              comdats[i].selection = B(Openers(Processed)[i].body, 0)

(***************************************************************************)
(* C17. A COMDAT that carries its data inline without a matching prior     *)
(* SEGDEF is not an error: it appends exactly one synthesized segment,     *)
(* named after the COMDAT name and holding the inline bytes; the segments  *)
(* declared before keep their indices and contents, and parsing continues. *)
(***************************************************************************)
C17_ImplicitComdatSynthesizesSegment ==
    [][(Handling(194) /\ Len(body) >= 3
        /\ ComdatHeader(rec, body).segment_index \notin 1..Len(segments)
        /\ Len(Content(body)) > ComdatHeader(rec, body).p)
         => LET h == ComdatHeader(rec, body) IN
            /\ status' = "running"
            /\ Len(segments') = Len(segments) + 1
            /\ IsPrefix(segments, segments')
            /\ Last(segments').name = LookupName(lnames, h.name_idx)
            /\ SectionData(Last(segments').data) = From(Content(body), h.p)]_vars

(***************************************************************************)
(* C18. For an explicit COMDAT whose segment index resolves to a declared  *)
(* segment, the retained fragment's data is the bytes carried by the       *)
(* COMDAT record itself, attached at the record's offset into that         *)
(* segment, and its name is the name-table entry at the record's 1-based   *)
(* name index (the empty name when that index names no entry).             *)
(***************************************************************************)
C18_ExplicitComdatKeepsOwnBytes ==
    [][(Handling(194) /\ Len(body) >= 3 /\ B(body, 0) % 2 = 0
        /\ ComdatHeader(rec, body).segment_index \in 1..Len(segments)
        /\ Len(Content(body)) >= ComdatHeader(rec, body).p)
         => LET h == ComdatHeader(rec, body) IN
            /\ status' = "running"
            /\ Len(comdats') = Len(comdats) + 1
            /\ Last(comdats').name = LookupName(lnames, h.name_idx)
            /\ Last(comdats').segment_index = h.segment_index
            /\ Last(comdats').offset = h.offset
            /\ Last(comdats').data # None
            /\ SectionData(Last(comdats').data[1]) = From(Content(body), h.p)]_vars

(***************************************************************************)
(* C19. A COMDAT record with the continuation flag (flags bit 0) set does  *)
(* not create a new fragment: its bytes are concatenated onto the fragment *)
(* of the previously declared COMDAT it continues, in stream order.        *)
(***************************************************************************)
C19_ContinuationExtendsFragment ==
    [][(Handling(194) /\ Len(body) >= 3 /\ B(body, 0) % 2 = 1
        /\ Len(comdats) >= 1 /\ Last(comdats).data # None
        /\ Last(comdats).name = LookupName(lnames, ComdatHeader(rec, body).name_idx)
        /\ Len(Content(body)) >= ComdatHeader(rec, body).p)
         => /\ status' = "running"
            /\ Len(comdats') = Len(comdats)
            /\ \A i \in 1..(Len(comdats) - 1) : comdats'[i] = comdats[i]
            /\ Last(comdats').data # None
            /\ SectionData(Last(comdats').data[1])
                 = SectionData(Last(comdats).data[1])
                   \o From(Content(body), ComdatHeader(rec, body).p)]_vars

(***************************************************************************)
(* The sections of the parsed module (OmfFile::sections and ObjectFile)    *)
(***************************************************************************)
\* One section per segment, its index the position in the segment list.
SegmentSections ==
    [i \in 1..Len(segments) |->
        [index |-> Some(i - 1), name |-> segments[i].name, data |-> segments[i].data,
         flags |-> segments[i].flags, relocs |-> segments[i].fixups]]

\* One section per COMDAT record; the struct literal names no index, the data
\* is comdat.data.unwrap_or(&[]).
ComdatSections ==
    [j \in 1..Len(comdats) |->
        [index |-> None, name |-> comdats[j].name,
         data |-> UnwrapOr(comdats[j].data, EmptyData),
         flags |-> "COMDAT", relocs |-> <<>>]]

sections_SegmentsOnly == SegmentSections

\* OmfFile::sections: the segment sections, then the COMDAT sections.
sections == SegmentSections \o ComdatSections

\* self.sections().nth(index.0).ok_or(Error("invalid section index"))
section_by_index(index) ==
    LET s == Get(sections, index) IN
    IF s = None THEN Err ELSE Ok(s[1])

Result ==
    IF status = "ok" THEN [st |-> "ok", val |-> acc]
    ELSE [st |-> status, val |-> detail]

ParseLocals_StaleNames ==
    <<None, lnames, <<>>, <<>>, <<>>, <<>>, <<>>, <<>>>>

\* The locals parse starts with: `let mut lnames = Vec::new(); ...
\* let mut module_name = None;` (in the order of acc)
ParseLocals ==
    <<None, <<>>, <<>>, <<>>, <<>>, <<>>, <<>>, <<>>>>

\* The first call has returned; the caller keeps its result and calls
\* OmfFile::parse on the same data again.
Reparse ==
    /\ calls = 1 /\ status # "running"
    /\ first' = Some(Result)
    /\ calls' = 2
    /\ pos' = 0
    /\ status' = "running"
    /\ detail' = "none"
    /\ module_name' = ParseLocals[1]
    /\ lnames' = ParseLocals[2]
    /\ segments' = ParseLocals[3]
    /\ symbols' = ParseLocals[4]
    /\ groups' = ParseLocals[5]
    /\ comdats' = ParseLocals[6]
    /\ commons' = ParseLocals[7]
    /\ comments' = ParseLocals[8]
    /\ UNCHANGED bytes

\* The records of the two-call runs: one for every arm and every way out.
TwiceRecords ==
    {R_THEADR, R_LNAMES, R_LNAMES_CK, R_SEGDEF, R_PUBDEF, R_PUBDEF_S, R_LPUBDEF,
     R_EXTDEF, R_FIXUPP, R_GRPDEF_2, R_COMDEF, R_COMDAT, R_MODEND, R_BAKPAT,
     R_COMENT, R_LIDATA, R_LLEDATA, T_TRUNC, T_TAIL}

MaxTwiceRecords == 2

InitTwice ==
    /\ bytes \in {Flatten(ss) : ss \in SeqsUpTo(TwiceRecords, MaxTwiceRecords)}
    /\ pos = 0
    /\ status = "running"
    /\ detail = "none"
    /\ module_name = None
    /\ lnames = <<>>
    /\ segments = <<>>
    /\ symbols = <<>>
    /\ groups = <<>>
    /\ comdats = <<>>
    /\ commons = <<>>
    /\ comments = <<>>
    /\ calls = 1
    /\ first = None

NextTwice == Next \/ Reparse

SpecTwice == InitTwice /\ [][NextTwice]_vars

RECURSIVE Consumed(_)
Consumed(frames) ==
    IF Len(frames) = 0 THEN 0
    ELSE 3 + Len(Head(frames).body) + Consumed(Tail(frames))

C22_ConsumedEqualsLength ==
    status = "ok" => Consumed(Processed) = Len(bytes)

(***************************************************************************)
(* C23. Every COMENT record appends one comment, in stream order, tagged   *)
(* with its comment-class byte (the second body byte, after the            *)
(* comment-type flags byte) and carrying the remaining payload bytes       *)
(* verbatim; a comment of unknown class is tagged and kept.                *)
(***************************************************************************)
\* The class byte an OmfCommentKind stands for.
ClassOfKind(kind) ==
    IF kind = <<"CompilerInfo">> THEN 0
    ELSE IF kind = <<"Copyright">> THEN 1
    ELSE IF kind = <<"LinkerInfo">> THEN 154
    ELSE kind[2]

C23_ComentKeepsClassAndPayload ==
    [][(Handling(136) /\ Len(Content(body)) >= 2)
         => /\ status' = "running"
            /\ Len(comments') = Len(comments) + 1
            /\ IsPrefix(comments, comments')
            /\ ClassOfKind(Last(comments').kind) = B(body, 1)
            /\ Last(comments').data = From(Content(body), 2)]_vars

(***************************************************************************)
(* The entry point of the parsed module (object.rs)                        *)
(***************************************************************************)
\* pub fn entry(&self) -> Option<u64> { None }
entry == None

\* A MODEND record whose type byte has bit 6, "has start address", set.
HasStartAddress(f) ==
    f.type \in {138, 139} /\ Len(f.body) >= 2 /\ (B(f.body, 0) \div 64) % 2 = 1

(***************************************************************************)
(* C24. The entry point of the module is derived from MODEND: it is        *)
(* present exactly when the MODEND record's type byte has bit 6 (has start *)
(* address) set, and absent when MODEND carries no start address.          *)
(***************************************************************************)
C24_EntryPointFromModend ==
    status = "ok"
      => ((entry # None) <=> \E i \in 1..Len(Processed) : HasStartAddress(Processed[i]))

(***************************************************************************)
(* C25. A THEADR record sets module_name to its length-prefixed name       *)
(* (Some("") for an empty name); module_name is None when the stream has   *)
(* no THEADR.  A module that consists only of THEADR and MODEND records,   *)
(* or of a single MODEND, parses without error and has no segments,        *)
(* symbols, groups, commons, COMDATs and comments.                         *)
(***************************************************************************)
\* The records of the whole buffer, when it is a sequence of whole records.
Whole == FramesFrom(bytes, 0, Len(bytes))

\* A THEADR record whose content is one length-prefixed name.
NamedTheadr(f) ==
    f.type = 128 /\ Len(Content(f.body)) >= 1
    /\ Len(Content(f.body)) = 1 + B(f.body, 0)

\* The name of the last THEADR among the records, None without a THEADR.
RECURSIVE NameOfModule(_)
NameOfModule(frames) ==
    IF Len(frames) = 0 THEN None
    ELSE LET f == Last(frames) IN
         IF f.type = 128 THEN Some(Range(f.body, 1, 1 + B(f.body, 0)))
         ELSE NameOfModule(SubSeq(frames, 1, Len(frames) - 1))

HeaderAndEndOnly(frames) ==
    \A i \in 1..Len(frames) :
        NamedTheadr(frames[i]) \/ frames[i].type \in {138, 139}

C25_TheadrNamesModule ==
    /\ (Alive /\ \A i \in 1..Len(Processed) :
                    Processed[i].type = 128 => NamedTheadr(Processed[i]))
         => module_name = NameOfModule(Processed)
    /\ (Consumed(Whole) = Len(bytes) /\ HeaderAndEndOnly(Whole))
         => /\ Alive
            /\ segments = <<>> /\ symbols = <<>> /\ groups = <<>>
            /\ commons = <<>> /\ comdats = <<>> /\ comments = <<>>

\* THEADR "A" then MODEND has been parsed: the module is named "A".
C25_NamedEmptyModule ==
    /\ status = "ok"
    /\ Len(Processed) = 2
    /\ Processed[1].type = 128 /\ Processed[2].type = 138
    /\ module_name = Some(<<65>>)
    /\ segments = <<>> /\ symbols = <<>>

(***************************************************************************)
(* C26. parse terminates on every finite input with work bounded by the    *)
(* buffer length: each iteration of the framing loop advances the position *)
(* by at least 3 bytes and never past the end of the buffer, nothing       *)
(* happens after parse has returned, and the inner loop of every handler   *)
(* (LNAMES, PUBDEF, LPUBDEF, EXTDEF, FIXUPP, GRPDEF) strictly advances its *)
(* cursor on each iteration.                                               *)
(***************************************************************************)
\* Every iteration an inner loop can start on the record at `pos` moves the
\* cursor forward.
InnerLoopsAdvance ==
    (status = "running" /\ HasHeader /\ InBuffer)
      => \A p \in 0..(Len(body) - 1) :
           /\ parse_string(From(body, p)).st = "ok" => LnamesAdvance(body, p) > p
           /\ PubdefAdvance(p) > p
           /\ LpubdefAdvance(p) > p
           /\ ExtdefAdvance(p) > p
           /\ FixuppAdvance(body, p) > p
           /\ GrpdefAdvance(p) > p

C26_ParseTerminates ==
    [][/\ status = "running"
       /\ InnerLoopsAdvance
       /\ pos <= Len(bytes) /\ pos' <= Len(bytes)
       /\ status' = "running" => pos' >= pos + 3]_vars

\* parse has returned a module after three records, one of them an LNAMES
\* record whose loop ran more than once.
C26_ThreeRecordsDone ==
    /\ status = "ok" /\ pos = Len(bytes)
    /\ Len(Processed) >= 3
    /\ \E i \in 1..Len(Processed) : Processed[i].type = 150
    /\ Len(lnames) >= 2

(***************************************************************************)
(* C27. For every framed record the body given to its handler is the       *)
(* len - 1 bytes that follow the 3-byte header: the trailing checksum byte *)
(* is excluded, is never read by a handler as record content (a name, an   *)
(* index, an entry or a data byte), and its value never changes the parse  *)
(* result: with any other checksum value the handler of the record gives   *)
(* the same outcome.                                                       *)
(***************************************************************************)
ChecksumValues == {0, 1, 255}

C27_ChecksumIsNotContent ==
    [][(status = "running" /\ HasHeader /\ InBuffer /\ len >= 1)
         => \A c \in ChecksumValues :
              LET other == Content(body) \o <<c>> IN
              /\ rec = 150 => LnamesLoop(other, 0, lnames) = LnamesLoop(body, 0, lnames)
              /\ rec = 140 => ExtdefLoop(other, 0, lnames, symbols)
                                = ExtdefLoop(body, 0, lnames, symbols)
              /\ rec = 154 => GrpdefBody(other, lnames, groups)
                                = GrpdefBody(body, lnames, groups)
              /\ rec = 136 => parse_comment(other) = parse_comment(body)
              /\ rec = 168 => LedataBody(rec, other, segments)
                                = LedataBody(rec, body, segments)
              /\ rec = 194 => ComdatBody(rec, other, lnames, segments, comdats)
                                = ComdatBody(rec, body, lnames, segments, comdats)]_vars

(***************************************************************************)
(* C28. Each SEGDEF/SEGDEF32 record appends exactly one segment with empty *)
(* data and no relocations, so the k-th SEGDEF of the stream is the        *)
(* segment with 1-based index k, and segments are never removed or         *)
(* reordered; a SEGDEF with declared length 0 still yields a segment, with *)
(* zero bytes.                                                             *)
(***************************************************************************)
IsSegdef(f) == f.type \in {152, 153}

SegdefsIn(frames) == Cardinality({i \in 1..Len(frames) : IsSegdef(frames[i])})

C28_SegdefAppendsOneSegment ==
    [][/\ (Handling(152) \/ Handling(153))
            => /\ status' = "running"
               /\ Len(segments') = Len(segments) + 1
               /\ segments'[Len(segments')].data.bytes = <<>>
               /\ segments'[Len(segments')].fixups = <<>>
               /\ Len(segments') = SegdefsIn(Processed) + 1
       /\ calls' = calls
            => /\ Len(segments') >= Len(segments)
               /\ \A i \in 1..Len(segments) :
                     /\ segments'[i].name = segments[i].name
                     /\ segments'[i].flags = segments[i].flags]_vars

(***************************************************************************)
(* C29. A segment reference of 0 is unbound: an LEDATA (or LIDATA, COMDAT) *)
(* record whose segment index is 0, or exceeds the number of segments      *)
(* declared so far, changes the data of no existing segment, and every     *)
(* non-zero segment reference resolves to the segment declared at that     *)
(* 1-based position.                                                       *)
(***************************************************************************)
\* The step leaves the data of every segment but the k-th as it was
\* (k = 0: of every segment).
DataKeptExcept(k) ==
    \A i \in 1..Len(segments) :
        i # k => (i <= Len(segments') /\ segments'[i].data = segments[i].data)

C29_SegmentZeroIsUnbound ==
    [][/\ (Framed("LEDATA") /\ Len(body) >= 4 /\ status' = "running")
            => LET k == B(body, 0) IN
               IF k = 0 \/ k > Len(segments)
               THEN DataKeptExcept(0)
               ELSE /\ DataKeptExcept(k)
                    /\ segments'[k].data.kind # "Slice"
                    /\ IsPrefix(LedataBytes(body), segments'[k].data.bytes)
       /\ (Framed("LIDATA") /\ Len(body) >= 4 /\ status' = "running")
            => LET k == B(body, 0) IN
               DataKeptExcept(IF k > Len(segments) THEN 0 ELSE k)
       /\ (Framed("COMDAT") /\ Len(body) >= 3 /\ status' = "running")
            => LET k == ComdatHeader(rec, body).segment_index
                   c == comdats'[Len(comdats')]
               IN /\ Len(comdats') = Len(comdats) + 1
                  /\ DataKeptExcept(0)
                  /\ k \in 1..Len(segments)
                        => c.segment_name = Some(segments[k].name)]_vars

(***************************************************************************)
(* C30. An LIDATA record binds its iterated block to the segment named by  *)
(* its leading segment index, at the data offset that follows that index,  *)
(* and not to whichever segment happens to be the last one declared.       *)
(***************************************************************************)
\* [segment-index][data-offset u16][iterated block]
LidataBlock(b) == From(Content(b), 3)

C30_LidataBindsNamedSegment ==
    [][(Framed("LIDATA") /\ Len(body) >= 4 /\ B(body, 0) \in 1..Len(segments))
         => LET k == B(body, 0) IN
            /\ status' = "running"
            /\ DataKeptExcept(k)
            /\ segments'[k].data.kind = "Lidata"
            /\ segments'[k].data.offset = U16(B(body, 1), B(body, 2))
            /\ IsPrefix(LidataBlock(body), segments'[k].data.bytes)]_vars

(***************************************************************************)
(* C31. A FIXUPP record that consists only of thread subrecords (first     *)
(* byte 0x00..0x7F, each followed by its index) emits no relocation,       *)
(* raises no error, and leaves the relocation list of every segment        *)
(* unchanged, whatever the values of the index bytes.                      *)
(***************************************************************************)
\* The content from p on is a run of thread subrecords: a byte below 0x80,
\* then an index of one byte, or of two when its first byte has the high
\* bit set.
RECURSIVE ThreadsOnly(_, _)
ThreadsOnly(c, p) ==
    \/ p = Len(c)
    \/ /\ p < Len(c)
       /\ B(c, p) < 128
       /\ Has(c, p + 1)
       /\ LET q == p + 1 + (IF B(c, p + 1) >= 128 THEN 2 ELSE 1) IN
          q <= Len(c) /\ ThreadsOnly(c, q)

C31_ThreadOnlyFixuppEmitsNothing ==
    [][(Handling(156) /\ Len(Content(body)) > 0 /\ ThreadsOnly(Content(body), 0))
         => /\ status' = "running"
            /\ Len(segments') = Len(segments)
            /\ \A k \in 1..Len(segments) :
                  segments'[k].fixups = segments[k].fixups]_vars

(***************************************************************************)
(* C32. For each fixup subrecord, the relocation's location offset is the  *)
(* 10-bit value ((byte0 & 0x03) << 8) | byte1, its width is selected by    *)
(* the 4-bit Location field (byte0 >> 2) & 0x0F (1 gives 16 bits, 9 gives  *)
(* 32 bits), its kind follows the M bit, and its target is the segment,    *)
(* group or external index named by the fix-data byte, so a fixup          *)
(* targeting external index n yields target External(n) (Symbol(n) in      *)
(* OmfFixupTarget).                                                        *)
(***************************************************************************)
LocationWidth(l) ==
    IF l \in {0, 4} THEN 8
    ELSE IF l \in {1, 2, 5} THEN 16
    ELSE IF l \in {3, 9, 13} THEN 32
    ELSE IF l = 11 THEN 48
    ELSE 0

\* The content is one fixup subrecord with an inline frame that carries no
\* index (methods 4 and 5), an inline one-byte target index and no
\* displacement: byte0, byte1, fix-data, target index.
PlainFixup(c) ==
    /\ Len(c) = 4
    /\ B(c, 0) >= 128
    /\ B(c, 2) \div 128 = 0                 \* F = 0
    /\ (B(c, 2) \div 16) % 8 \in {4, 5}     \* frame method without index
    /\ (B(c, 2) \div 8) % 2 = 0             \* T = 0
    /\ (B(c, 2) \div 4) % 2 = 1             \* P = 1
    /\ B(c, 2) % 4 \in {0, 1, 2}
    /\ B(c, 3) < 128

C32_FixupFieldsDecoded ==
    [][(Handling(156) /\ Len(segments) > 0 /\ PlainFixup(Content(body)))
         => LET c == Content(body) IN
            /\ status' = "running"
            /\ Len(Emitted) = 1
            /\ Emitted[1].offset = (B(c, 0) % 4) * 256 + B(c, 1)
            /\ Emitted[1].size = LocationWidth((B(c, 0) \div 4) % 16)
            /\ Emitted[1].kind = (IF (B(c, 0) \div 64) % 2 = 1 THEN "Absolute"
                                                               ELSE "Relative")
            /\ Emitted[1].target = <<MethodName(B(c, 2) % 4), B(c, 3)>>]_vars

(***************************************************************************)
(* C33. Wherever a record carries an index (SEGDEF name, LEDATA segment,   *)
(* ...), a first byte with the high bit clear is the index itself and a    *)
(* first byte with the high bit set starts a 2-byte index equal to         *)
(* ((first & 0x7F) << 8) | second, after which the next field starts       *)
(* behind the second byte.                                                 *)
(***************************************************************************)
\* The index that starts at c[p], and where the next field starts.
Index(c, p) ==
    IF B(c, p) < 128 THEN [val |-> B(c, p), next |-> p + 1]
    ELSE [val |-> (B(c, p) % 128) * 256 + GetOr0(c, p + 1), next |-> p + 2]

C33_IndexIsOneOrTwoBytes ==
    [][/\ (Handling(152) /\ Has(Content(body), 3)
           /\ Index(Content(body), 3).next <= Len(Content(body))
           /\ Index(Content(body), 3).val >= 1)
            => LET n == Index(Content(body), 3).val IN
               /\ status' = "running"
               /\ Len(segments') = Len(segments) + 1
               /\ segments'[Len(segments')].name
                     = (IF n <= Len(lnames) THEN lnames[n] ELSE <<>>)
       /\ (Handling(168) /\ Has(Content(body), 0)
           /\ Index(Content(body), 0).next + 2 <= Len(Content(body))
           /\ Index(Content(body), 0).val \in 1..Len(segments))
            => LET c   == Content(body)
                   idx == Index(c, 0)
               IN /\ status' = "running"
                  /\ segments'[idx.val].data.kind # "Slice"
                  /\ segments'[idx.val].data.offset
                        = U16(B(c, idx.next), B(c, idx.next + 1))
                  /\ IsPrefix(From(c, idx.next + 2),
                              segments'[idx.val].data.bytes)]_vars

(***************************************************************************)
(* C34. Ignored records (MODEND, LIBHDR, LIBDIR and the placeholder        *)
(* variants) leave every accumulator unchanged, and each acting record     *)
(* changes only its own table: LNAMES only the names, SEGDEF only the      *)
(* segment list, PUBDEF/EXTDEF only the symbols, GRPDEF only the groups,   *)
(* COMDEF only the commons, COMENT only the comments, LEDATA/FIXUPP only   *)
(* the data or relocations of one existing segment.                        *)
(***************************************************************************)
\* MODEND, MODEND32, BAKPAT, LCOMDEF, LIBHDR, LIBDIR, RIDATA
IgnoredOpcodes == {138, 139, 164, 178, 240, 241, 242}

\* The accumulators a record of the given type may change.
OwnTable(t) ==
    IF t = 150 THEN {"lnames"}
    ELSE IF t \in {152, 153} THEN {"segments"}
    ELSE IF t \in {144, 140} THEN {"symbols"}
    ELSE IF t = 154 THEN {"groups"}
    ELSE IF t = 176 THEN {"commons"}
    ELSE IF t = 136 THEN {"comments"}
    ELSE IF t \in {160, 168, 156} THEN {"segments"}
    ELSE {}

\* The accumulators the step changes.
Changed ==
    {n \in {"module_name"} : module_name' # module_name}
    \cup {n \in {"lnames"} : lnames' # lnames}
    \cup {n \in {"segments"} : segments' # segments}
    \cup {n \in {"symbols"} : symbols' # symbols}
    \cup {n \in {"groups"} : groups' # groups}
    \cup {n \in {"comdats"} : comdats' # comdats}
    \cup {n \in {"commons"} : commons' # commons}
    \cup {n \in {"comments"} : comments' # comments}

\* At most one segment changes, in its data or relocations only.
OneSegmentTouched ==
    /\ Len(segments') = Len(segments)
    /\ \A i \in 1..Len(segments) :
          /\ segments'[i].name = segments[i].name
          /\ segments'[i].flags = segments[i].flags
    /\ \A i, j \in 1..Len(segments) :
          (segments'[i] # segments[i] /\ segments'[j] # segments[j]) => i = j

C34_RecordsChangeOwnTableOnly ==
    [][(status = "running" /\ HasHeader /\ InBuffer
        /\ rec \in IgnoredOpcodes \cup {150, 152, 153, 144, 140, 154, 176, 136,
                                        160, 168, 156})
         => /\ Changed \subseteq OwnTable(rec)
            /\ rec \in {160, 168, 156} => OneSegmentTouched]_vars

(***************************************************************************)
(* C35. For every byte buffer, parse returns either a module or an error   *)
(* value: no handler reads past the end of its record body (for example a  *)
(* SEGDEF, COMDEF, PUBDEF or FIXUPP whose body is empty or shorter than    *)
(* its fixed fields), so a short or malformed record body never aborts the *)
(* parse with an out-of-bounds access.                                     *)
(***************************************************************************)
C35_NoOutOfBoundsAbort ==
    /\ status \in {"running", "ok", "err"}
    /\ status # "running" => Result.st \in {"ok", "err"}

(***************************************************************************)
(* C36. A segment's name is fixed when its SEGDEF is processed, from the   *)
(* names appended so far: an LNAMES record that appears later in the       *)
(* stream never changes the name of an already declared segment, symbol,   *)
(* group or COMDAT, so a SEGDEF whose name index is only defined by a      *)
(* later LNAMES keeps the empty name.                                      *)
(***************************************************************************)
\* Every entry that exists before the step keeps its name.
NamesKept ==
    /\ Len(segments') >= Len(segments)
    /\ \A i \in 1..Len(segments) : segments'[i].name = segments[i].name
    /\ Len(symbols') >= Len(symbols)
    /\ \A i \in 1..Len(symbols) : symbols'[i].name = symbols[i].name
    /\ Len(groups') >= Len(groups)
    /\ \A i \in 1..Len(groups) : groups'[i].name = groups[i].name
    /\ Len(comdats') >= Len(comdats)
    /\ \A i \in 1..Len(comdats) :
          /\ comdats'[i].name = comdats[i].name
          /\ comdats'[i].segment_name = comdats[i].segment_name

C36_NamesFixedAtDeclaration ==
    [][/\ NamesKept
       /\ Handling(150) => /\ segments' = segments /\ symbols' = symbols
                           /\ groups' = groups /\ comdats' = comdats
       /\ (Handling(152) /\ Len(body) >= 4 /\ B(body, 3) > Len(lnames))
            => /\ Len(segments') = Len(segments) + 1
               /\ segments'[Len(segments')].name = <<>>]_vars

\* A SEGDEF naming index 1 came before the LNAMES that defines name 1, and
\* the segment still has the empty name when parse returns.
C36_LateNameNotApplied ==
    /\ status = "ok"
    /\ Len(Processed) = 2
    /\ Processed[1].type = 152 /\ Len(Processed[1].body) >= 4
    /\ B(Processed[1].body, 3) = 1
    /\ Processed[2].type = 150
    /\ Len(lnames) >= 1 /\ lnames[1] # <<>>
    /\ Len(segments) = 1 /\ segments[1].name = <<>>

(***************************************************************************)
(* C37. A FIXUPP record processed while no segment has been declared yet   *)
(* is not an error: its fixup subrecords are consumed, no relocation is    *)
(* stored anywhere, and a segment declared afterwards starts with an empty *)
(* relocation list.                                                        *)
(***************************************************************************)
\* The FIXUPP record being handled decodes as thread and fixup subrecords,
\* given the thread slots the records before it have set.
DecodableFixupp ==
    /\ ThreadsAfter(Processed, Len(Processed)).ok
    /\ FixuppWalk(Content(body), 0,
                  ThreadsAfter(Processed, Len(Processed)).threads, <<>>).ok

C37_FixuppWithoutSegmentIsDropped ==
    [][/\ (Handling(156) /\ segments = <<>> /\ DecodableFixupp)
            => /\ status' = "running"
               /\ pos' = pos + 3 + len
               /\ segments' = <<>>
               /\ UNCHANGED <<symbols, groups, comdats, commons>>
       /\ ((Handling(152) \/ Handling(153)) /\ status' = "running")
            => /\ Len(segments') = Len(segments) + 1
               /\ segments'[Len(segments')].fixups = <<>>]_vars

====
